---- MODULE Spec2Model ----
(***************************************************************************)
(* A model of `nix profile` (src/nix/profile.cc): the profile manifest,    *)
(* its JSON form, the element matchers, ProfileManifest::build, and the    *)
(* install / remove / upgrade commands run by concurrent invocations on    *)
(* one profile.                                                            *)
(*                                                                         *)
(* A string is a sequence of tokens (a token stands for a run of           *)
(* characters); the empty string is <<>>.                                  *)
(***************************************************************************)
EXTENDS Integers, Sequences, FiniteSets, TLC

(* ---------------------------- bounds ---------------------------------- *)

\* operations started in one behaviour
MaxOps == 2
\* longest manifest an install may produce
MaxLen == 3
\* newest revision the upstream flake reaches
MaxRev == 2
(* ---------------------------- strings --------------------------------- *)

Digits == <<"0", "1", "2", "3", "4", "5", "6", "7", "8", "9">>

\* the tokens in character order, for the ordering of std::set<std::string>
TokenOrder ==
    <<"(", "*", ".", "/", "/nix/store/">> \o Digits \o
    <<"GIT", "HELLO", "cowsay", "git", "hello", "legacy", "legacy-doc",
      "nixpkgs", "packages">>

Rank(t) == CHOOSE k \in 1..Len(TokenOrder) : TokenOrder[k] = t

RECURSIVE StrLess(_, _)
StrLess(s, t) ==
    IF t = <<>> THEN FALSE
    ELSE IF s = <<>> THEN TRUE
    ELSE IF Head(s) = Head(t) THEN StrLess(Tail(s), Tail(t))
    ELSE Rank(Head(s)) < Rank(Head(t))

IsDigit(t) == \E k \in 1..Len(Digits) : Digits[k] = t

DigitVal(t) == (CHOOSE k \in 1..Len(Digits) : Digits[k] = t) - 1

RECURSIVE DecimalValue(_)
DecimalValue(s) ==
    IF s = <<>> THEN 0
    ELSE 10 * DecimalValue(SubSeq(s, 1, Len(s) - 1)) + DigitVal(s[Len(s)])

\* string2Int<size_t>: success iff the whole string is an unsigned decimal
string2IntOk(s) == s # <<>> /\ \A k \in 1..Len(s) : IsDigit(s[k])

string2Int(s) == DecimalValue(s)

\* std::tolower per character, for std::regex::icase
ToLower(t) ==
    CASE t = "HELLO" -> "hello"
      [] t = "GIT" -> "git"
      [] OTHER -> t

(* ---------------------------- flake references ------------------------ *)

\* a FlakeRef: rev = 0 is a floating reference, rev > 0 pins a revision
FlakeRefOf(id, rev) == [id |-> id, rev |-> rev]

isImmutable(ref) == ref.rev # 0

\* FlakeRef::to_string
to_string(ref) ==
    IF ref.rev = 0 THEN <<ref.id>> ELSE <<ref.id, "/", Digits[ref.rev + 1]>>

\* FlakeRef::FlakeRef(const std::string &)
FlakeRef(uri) ==
    IF Len(uri) = 1 THEN FlakeRefOf(uri[1], 0)
    ELSE FlakeRefOf(uri[1], string2Int(SubSeq(uri, 3, Len(uri))))

(* ---------------------------- the store's names ----------------------- *)

StoreDir == "/nix/store/"

\* Store::isStorePath
isStorePath(s) == Len(s) >= 2 /\ s[1] = StoreDir

\* the last component of an attribute path names the package
PkgName(attrPath) == attrPath[Len(attrPath)]

\* drv.outPath of the derivation a resolved reference and attrPath evaluate to
outPath(resolvedRef, attrPath) ==
    <<StoreDir, PkgName(attrPath), Digits[resolvedRef.rev + 1]>>

\* makeDrvPathWithOutputs(drv.drvPath, {"out"})
drvPathWithOutputs(resolvedRef, attrPath) ==
    [drvPath |-> <<StoreDir, PkgName(attrPath), Digits[resolvedRef.rev + 1], ".">>,
     outputs |-> {"out"}]

\* InstallableFlake::toDerivation searches under the default prefix first
ResolveAttrPath(attr) ==
    IF Head(attr) = "packages" THEN attr ELSE <<"packages", ".">> \o attr

(* ---------------------------- data model ------------------------------ *)

\* std::optional<ProfileElementSource>: <<>> is std::nullopt, <<s>> holds s
NoSource == <<>>

ProfileElementSource(originalRef, resolvedRef, attrPath) ==
    <<[originalRef |-> originalRef, resolvedRef |-> resolvedRef, attrPath |-> attrPath]>>

HasSource(element) == element.source # NoSource

SourceOf(element) == element.source[1]

ProfileElement(storePaths, source, active) ==
    [storePaths |-> storePaths, source |-> source, active |-> active]

\* the elements of a PathSet in iteration order (ascending)
RECURSIVE SortedPaths(_)
SortedPaths(S) ==
    IF S = {} THEN <<>>
    ELSE LET m == CHOOSE p \in S : \A q \in S \ {p} : StrLess(p, q)
         IN  <<m>> \o SortedPaths(S \ {m})

Range(seq) == {seq[k] : k \in 1..Len(seq)}

(* ---------------------------- manifest.json --------------------------- *)

\* one element object written by ProfileManifest::toJSON
ElementToJSON(element) ==
    IF HasSource(element)
    THEN [storePaths  |-> SortedPaths(element.storePaths),
          active      |-> element.active,
          originalUri |-> to_string(SourceOf(element).originalRef),
          uri         |-> to_string(SourceOf(element).resolvedRef),
          attrPath    |-> SourceOf(element).attrPath]
    ELSE [storePaths  |-> SortedPaths(element.storePaths),
          active      |-> element.active]

toJSON(elements) ==
    [version  |-> 1,
     elements |-> [k \in 1..Len(elements) |-> ElementToJSON(elements[k])]]

\* json.value(key, default)
JsonValue(obj, key, default) == IF key \in DOMAIN obj THEN obj[key] ELSE default

\* a reader that takes both references of an element from its "uri"
ElementFromJSONResolved(e) ==
    ProfileElement(
        Range(e.storePaths),
        IF JsonValue(e, "uri", <<>>) # <<>>
        THEN ProfileElementSource(FlakeRef(e.uri), FlakeRef(e.uri), e.attrPath)
        ELSE NoSource,
        e.active)

\* one element read back by ProfileManifest::ProfileManifest(profile)
ElementFromJSON(e) ==
    ProfileElement(
        Range(e.storePaths),
        IF JsonValue(e, "uri", <<>>) # <<>>
        THEN ProfileElementSource(FlakeRef(e.originalUri), FlakeRef(e.uri), e.attrPath)
        ELSE NoSource,
        e.active)

\* a version check that takes a manifest without a version for a current one
ManifestVersionOkDefaulted(json) == JsonValue(json, "version", 1) = 1

ManifestVersionOk(json) == JsonValue(json, "version", 0) = 1

ElementsFromJSON(json) ==
    [k \in 1..Len(json.elements) |-> ElementFromJSON(json.elements[k])]

(* ---------------------------- element matchers ------------------------ *)

\* std::regex(s, extended | icase): atoms, each possibly starred; "." is any token
RECURSIVE CompileRegex(_)
CompileRegex(s) ==
    IF s = <<>> THEN <<>>
    ELSE IF Len(s) >= 2 /\ s[2] = "*"
         THEN <<[c |-> s[1], star |-> TRUE]>> \o CompileRegex(SubSeq(s, 3, Len(s)))
         ELSE <<[c |-> s[1], star |-> FALSE]>> \o CompileRegex(Tail(s))

\* std::regex's constructor throws std::regex_error: a group is left open
RegexError(s) == \E k \in 1..Len(s) : s[k] = "("

AtomMatches(atom, t) == atom.c = "." \/ ToLower(atom.c) = ToLower(t)

\* does the regex match a prefix of s and, when whole, nothing but s
RECURSIVE MatchFrom(_, _, _)
MatchFrom(regex, s, whole) ==
    IF regex = <<>> THEN (~whole \/ s = <<>>)
    ELSE LET atom == Head(regex) IN
         IF atom.star
         THEN \/ MatchFrom(Tail(regex), s, whole)
              \/ s # <<>> /\ AtomMatches(atom, Head(s)) /\ MatchFrom(regex, Tail(s), whole)
         ELSE s # <<>> /\ AtomMatches(atom, Head(s)) /\ MatchFrom(Tail(regex), Tail(s), whole)

\* std::regex_search: any part of the string
regex_search(s, regex) ==
    \E k \in 0..Len(s) : MatchFrom(regex, SubSeq(s, k + 1, Len(s)), FALSE)

\* std::regex_match: the whole string
regex_match(s, regex) == MatchFrom(regex, s, TRUE)

\* std::variant<size_t, Path, std::regex>
Matcher(kind, val) == [kind |-> kind, val |-> val]

\* a classification that tries the pattern before the store path
ClassifyMatcherPatternFirst(s) ==
    IF string2IntOk(s) THEN Matcher("size_t", string2Int(s))
    ELSE IF Len(s) >= 1 THEN Matcher("regex", CompileRegex(s))
    ELSE Matcher("Path", s)

ClassifyMatcher(s) ==
    IF string2IntOk(s) THEN Matcher("size_t", string2Int(s))
    ELSE IF isStorePath(s) THEN Matcher("Path", s)
    ELSE Matcher("regex", CompileRegex(s))

\* getMatchers throws: a selector that is neither integer nor path does not compile
getMatchersThrows(_matchers) ==
    \E k \in 1..Len(_matchers) :
        ClassifyMatcher(_matchers[k]).kind = "regex" /\ RegexError(_matchers[k])

getMatchers(_matchers) == [k \in 1..Len(_matchers) |-> ClassifyMatcher(_matchers[k])]

\* a match that counts positions from 1
MatcherMatchesFromOne(matcher, element, pos) ==
    CASE matcher.kind = "size_t" -> matcher.val = pos + 1
      [] matcher.kind = "Path"   -> matcher.val \in element.storePaths
      [] matcher.kind = "regex"  ->
            HasSource(element) /\ regex_match(SourceOf(element).attrPath, matcher.val)

MatcherMatches(matcher, element, pos) ==
    CASE matcher.kind = "size_t" -> matcher.val = pos
      [] matcher.kind = "Path"   -> matcher.val \in element.storePaths
      [] matcher.kind = "regex"  ->
            HasSource(element) /\ regex_match(SourceOf(element).attrPath, matcher.val)

\* an element is selected only if every matcher matches it
matchesAll(element, pos, matchers) ==
    \A k \in 1..Len(matchers) : MatcherMatches(matchers[k], element, pos)

\* pos counts from 0
matches(element, pos, matchers) ==
    \E k \in 1..Len(matchers) : MatcherMatches(matchers[k], element, pos)

(* ---------------------------- ProfileManifest::build ------------------ *)

Priority == 5

Package(path) == [path |-> path, active |-> TRUE, priority |-> Priority]

\* a Packages vector that takes the paths of every element
RECURSIVE PackagesOfAll(_)
PackagesOfAll(elements) ==
    IF elements = <<>> THEN <<>>
    ELSE LET paths == SortedPaths(Head(elements).storePaths) IN
         [k \in 1..Len(paths) |-> Package(paths[k])] \o PackagesOfAll(Tail(elements))

\* the Packages vector: active elements in order, each one's paths ascending
RECURSIVE Packages(_)
Packages(elements) ==
    IF elements = <<>> THEN <<>>
    ELSE LET paths == SortedPaths(Head(elements).storePaths) IN
         (IF Head(elements).active
          THEN [k \in 1..Len(paths) |-> Package(paths[k])]
          ELSE <<>>) \o Packages(Tail(elements))

\* info.references: the paths of every element
References(elements) == UNION {elements[k].storePaths : k \in 1..Len(elements)}

\* buildProfile: one link per distinct package path
buildProfile(pkgs) == {pkgs[k].path : k \in 1..Len(pkgs)}

\* the tree in tempDir after buildProfile and writeFile, as dumpPath serialises it
TempDir(elements) ==
    [links |-> buildProfile(Packages(elements)), manifest |-> toJSON(elements)]

\* hashString(htSHA256, nar): an injective function of the serialisation
hashString(nar) == nar

makeFixedOutputPath(narHash, name, references) ==
    [name |-> name, narHash |-> narHash, references |-> references]

\* the ValidPathInfo that build hands to addToStore
BuildInfo(elements) ==
    LET nar == TempDir(elements) IN
    [path       |-> makeFixedOutputPath(hashString(nar), "profile", References(elements)),
     narHash    |-> hashString(nar),
     references |-> References(elements),
     nar        |-> nar]

(* ---------------------------- inputs ---------------------------------- *)

Procs == {"p1", "p2"}

Nixpkgs == "nixpkgs"

InstallableFlake(flakeRef, attrPath) ==
    [kind |-> "flake", flakeRef |-> flakeRef, attrPath |-> attrPath]

\* nixpkgs#hello
Floating == InstallableFlake(FlakeRefOf(Nixpkgs, 0), <<"hello">>)

\* nixpkgs/1#packages.git
PinnedGit == InstallableFlake(FlakeRefOf(Nixpkgs, 1), <<"packages", ".", "git">>)

\* nixpkgs/1#hello
PinnedHello == InstallableFlake(FlakeRefOf(Nixpkgs, 1), <<"hello">>)

\* a store-path installable
StorePathInstallable == [kind |-> "storePath", what |-> <<StoreDir, "cowsay", "0">>]

\* the argument lists of `nix profile install`
InstallableLists ==
    {<<Floating>>, <<PinnedGit>>, <<PinnedHello>>, <<PinnedGit, Floating>>,
     <<Floating, StorePathInstallable>>}

\* the argument lists of `nix profile remove`
SelectorLists ==
    {<<>>,
     <<<<"0">>>>,
     <<<<"1">>>>,
     <<<<"2">>>>,
     <<<<StoreDir, "hello", "1">>>>,
     <<<<"packages", ".", "git">>>>,
     <<<<".", "*">>>>,
     <<<<"hello">>>>,
     <<<<"(", "hello">>>>,
     <<<<"packages", ".", "HELLO">>, <<"0">>>>,
     <<<<"1", "0">>, <<StoreDir, "hello", "1">>>>}

\* the argument lists of `nix profile upgrade`
UpgradeLists ==
    {<<>>,
     <<<<"1">>>>,
     <<<<".", "*">>>>,
     <<<<"hello">>>>,
     <<<<"(", "hello">>>>,
     <<<<"packages", ".", "HELLO">>, <<"0">>>>}

\* a profile made by an earlier version: an element without provenance that
\* has two store paths, and an inactive element with provenance
LegacyElements ==
    <<ProfileElement({<<StoreDir, "legacy", "0">>, <<StoreDir, "legacy-doc", "0">>},
                     NoSource, TRUE),
      ProfileElement({<<StoreDir, "hello", "1">>},
                     ProfileElementSource(FlakeRefOf(Nixpkgs, 0), FlakeRefOf(Nixpkgs, 1),
                                          <<"packages", ".", "hello">>),
                     FALSE)>>

\* a profile whose manifest.json was written by a later format
FutureInfo ==
    LET nar == [links |-> {}, manifest |-> [version |-> 2, elements |-> <<>>]] IN
    [path       |-> makeFixedOutputPath(hashString(nar), "profile", {}),
     narHash    |-> hashString(nar),
     references |-> {},
     nar        |-> nar]

\* a profile whose manifest.json has no "version" member
UnversionedInfo ==
    LET nar == [links |-> {}, manifest |-> [elements |-> toJSON(LegacyElements).elements]] IN
    [path       |-> makeFixedOutputPath(hashString(nar), "profile", {}),
     narHash    |-> hashString(nar),
     references |-> {},
     nar        |-> nar]

InitialStores == {{}, {BuildInfo(LegacyElements)}, {FutureInfo}, {UnversionedInfo}}

(* ---------------------------- state ----------------------------------- *)

VARIABLES
    profile,        \* the profile's current generation: a store path, or NoPath
    store,          \* the ValidPathInfos registered by addToStore
    head,           \* the newest revision of the upstream flake
    ops,            \* operations started so far
    pc,             \* where each invocation is in its run()
    cmd,            \* the command of each invocation and its arguments
    manifest,       \* the elements run() builds: manifest / newManifest
    loaded,         \* the elements as the constructor read them
    i,              \* the loop index of run()
    pathsToBuild,   \* the PathSet of run()
    matchers,       \* the result of getMatchers
    result,         \* the path manifest.build(store) returned
    err,            \* the error that ended run(), if any
    log,            \* what run() has asked of its collaborators, in order
    before,         \* the profile's generation when run() started
    origin          \* the profile's generation before the first invocation

vars == <<profile, store, head, ops, pc, cmd, manifest, loaded, i, pathsToBuild,
          matchers, result, err, log, before, origin>>

NoPath == [name |-> "none"]

NoCmd == [name |-> "none", args |-> <<>>]

\* an Error: its kind and the argument its message is formatted with
Error(kind, what) == [kind |-> kind, what |-> what]

NoError == Error("none", <<>>)

InfoOf(path) == CHOOSE info \in store : info.path = path

\* pathExists(profile + "/manifest.json")
ManifestExists == profile # NoPath

\* nlohmann::json::parse(readFile(manifestPath))
ManifestJSON == InfoOf(profile).nar.manifest

\* ProfileManifest(profile) throws
LoadFails == ManifestExists /\ ~ManifestVersionOk(ManifestJSON)

\* ProfileManifest(profile).elements
LoadedElements == IF ManifestExists THEN ElementsFromJSON(ManifestJSON) ELSE <<>>

Init ==
    /\ store \in InitialStores
    /\ profile = (IF store = {} THEN NoPath ELSE (CHOOSE info \in store : TRUE).path)
    /\ head = 1
    /\ ops = 0
    /\ pc = [p \in Procs |-> "idle"]
    /\ cmd = [p \in Procs |-> NoCmd]
    /\ manifest = [p \in Procs |-> <<>>]
    /\ loaded = [p \in Procs |-> <<>>]
    /\ i = [p \in Procs |-> 0]
    /\ pathsToBuild = [p \in Procs |-> {}]
    /\ matchers = [p \in Procs |-> <<>>]
    /\ result = [p \in Procs |-> NoPath]
    /\ err = [p \in Procs |-> NoError]
    /\ log = [p \in Procs |-> <<>>]
    /\ before = [p \in Procs |-> NoPath]
    /\ origin = profile

(* ---------------------------- the commands ---------------------------- *)

Finished(p) == pc[p] \in {"idle", "done", "failed"}

\* run() is left by an exception whose message names `what`: its locals are destroyed
ThrowNaming(p, e, what) ==
    /\ pc' = [pc EXCEPT ![p] = "failed"]
    /\ err' = [err EXCEPT ![p] = Error(e, what)]
    /\ manifest' = [manifest EXCEPT ![p] = <<>>]
    /\ loaded' = [loaded EXCEPT ![p] = <<>>]
    /\ matchers' = [matchers EXCEPT ![p] = <<>>]
    /\ pathsToBuild' = [pathsToBuild EXCEPT ![p] = {}]
    /\ i' = [i EXCEPT ![p] = 0]
    /\ result' = [result EXCEPT ![p] = NoPath]

\* run() is left by an exception
Throw(p, e) == ThrowNaming(p, e, <<>>)

\* invocations are interchangeable: the second one only runs beside the first
MayStart(p) == Finished(p) /\ (p = "p1" \/ ~Finished("p1"))

\* the first statement of every run(): ProfileManifest manifest(*profile)
Load(p, name, args) ==
    /\ MayStart(p)
    /\ ops < MaxOps
    /\ ops' = ops + 1
    /\ cmd' = [cmd EXCEPT ![p] = [name |-> name, args |-> args]]
    /\ before' = [before EXCEPT ![p] = profile]
    /\ log' = [log EXCEPT ![p] = <<>>]
    /\ UNCHANGED <<profile, store, head, origin>>

Event(ev, arg) == [ev |-> ev, arg |-> arg]

Logged(p, ev, arg) == log' = [log EXCEPT ![p] = Append(@, Event(ev, arg))]

\* what the resolver pins a reference to now
ResolvedRef(flakeRef) ==
    IF isImmutable(flakeRef) THEN flakeRef ELSE FlakeRefOf(flakeRef.id, head)

\* an install that records the resolved reference as the original one
InstalledElementPinned(installable) ==
    LET attrPath == ResolveAttrPath(installable.attrPath)
        resolvedRef == ResolvedRef(installable.flakeRef)
    IN  ProfileElement({outPath(resolvedRef, attrPath)},
                       ProfileElementSource(resolvedRef, resolvedRef, attrPath),
                       TRUE)

\* an install that adds its element switched off
InstalledElementInactive(installable) ==
    LET attrPath == ResolveAttrPath(installable.attrPath)
        resolvedRef == ResolvedRef(installable.flakeRef)
    IN  ProfileElement({outPath(resolvedRef, attrPath)},
                       ProfileElementSource(installable.flakeRef, resolvedRef, attrPath),
                       FALSE)

\* the element CmdProfileInstall::run makes of a resolved installable
InstalledElement(installable) ==
    LET attrPath == ResolveAttrPath(installable.attrPath)
        resolvedRef == ResolvedRef(installable.flakeRef)
    IN  ProfileElement({outPath(resolvedRef, attrPath)},
                       ProfileElementSource(installable.flakeRef, resolvedRef, attrPath),
                       TRUE)

\* an upgrade that puts a newly constructed element in the place of the old one
UpgradedElementFresh(element) ==
    LET attrPath == ResolveAttrPath(SourceOf(element).attrPath)
        resolvedRef == ResolvedRef(SourceOf(element).originalRef)
    IN  ProfileElement({outPath(resolvedRef, attrPath)},
                       ProfileElementSource(SourceOf(element).originalRef,
                                            resolvedRef, attrPath),
                       TRUE)

\* the element CmdProfileUpgrade::run puts in the place of an element it upgrades
UpgradedElement(element) ==
    LET attrPath == ResolveAttrPath(SourceOf(element).attrPath)
        resolvedRef == ResolvedRef(SourceOf(element).originalRef)
    IN  [element EXCEPT
            !.storePaths = {outPath(resolvedRef, attrPath)},
            !.source = ProfileElementSource(SourceOf(element).originalRef,
                                            resolvedRef, attrPath)]

\* an upgrade loop that does not consult the matchers
UpgradeCandidateUnselected(element, pos, ms) ==
    /\ HasSource(element)
    /\ ~isImmutable(SourceOf(element).originalRef)

\* the condition under which the upgrade loop re-resolves an element
UpgradeCandidate(element, pos, ms) ==
    /\ HasSource(element)
    /\ ~isImmutable(SourceOf(element).originalRef)
    /\ matches(element, pos, ms)

\* a remove loop that matches against the position in the manifest being built
RECURSIVE RemoveLoopFrom(_, _, _, _)
RemoveLoopFrom(elements, ms, k, kept) ==
    IF k > Len(elements) THEN <<>>
    ELSE IF ~matches(elements[k], kept, ms)
         THEN <<elements[k]>> \o RemoveLoopFrom(elements, ms, k + 1, kept + 1)
         ELSE RemoveLoopFrom(elements, ms, k + 1, kept)

RemoveLoopRenumbered(elements, ms, k) == RemoveLoopFrom(elements, ms, k, k - 1)

\* the loop of CmdProfileRemove::run from index k on (k counts from 1)
RECURSIVE RemoveLoop(_, _, _)
RemoveLoop(elements, ms, k) ==
    IF k > Len(elements) THEN <<>>
    ELSE (IF ~matches(elements[k], k - 1, ms) THEN <<elements[k]>> ELSE <<>>)
         \o RemoveLoop(elements, ms, k + 1)

(* CmdProfileInstall::run, up to its loop *)
InstallLoad(p, installables) ==
    /\ Len(LoadedElements) + Len(installables) <= MaxLen
    /\ Load(p, "install", installables)
    /\ IF LoadFails
       THEN Throw(p, "UnsupportedVersion")
       ELSE /\ pc' = [pc EXCEPT ![p] = "loop"]
            /\ err' = [err EXCEPT ![p] = NoError]
            /\ loaded' = [loaded EXCEPT ![p] = LoadedElements]
            /\ manifest' = [manifest EXCEPT ![p] = LoadedElements]
            /\ matchers' = [matchers EXCEPT ![p] = <<>>]
            /\ pathsToBuild' = [pathsToBuild EXCEPT ![p] = {}]
            /\ i' = [i EXCEPT ![p] = 0]
            /\ result' = [result EXCEPT ![p] = NoPath]

\* an install loop that passes over an installable it does not support
InstallStepSkipping(p) ==
    /\ pc[p] = "loop"
    /\ cmd[p].name = "install"
    /\ LET installable == cmd[p].args[i[p] + 1] IN
       \/ /\ installable.kind = "flake"
          /\ manifest' = [manifest EXCEPT ![p] = Append(@, InstalledElement(installable))]
          /\ pathsToBuild' = [pathsToBuild EXCEPT ![p] =
                @ \cup {drvPathWithOutputs(ResolvedRef(installable.flakeRef),
                                           ResolveAttrPath(installable.attrPath))}]
          /\ Logged(p, "resolve", [pos |-> i[p], resolvedRef |-> ResolvedRef(installable.flakeRef)])
          /\ i' = [i EXCEPT ![p] = @ + 1]
          /\ pc' = [pc EXCEPT ![p] = IF i[p] + 1 = Len(cmd[p].args) THEN "buildPaths" ELSE "loop"]
          /\ UNCHANGED <<err, loaded, matchers, result>>
       \/ /\ installable.kind = "flake"
          /\ Throw(p, "ResolutionFailure")
          /\ UNCHANGED log
       \/ /\ installable.kind # "flake"
          /\ i' = [i EXCEPT ![p] = @ + 1]
          /\ pc' = [pc EXCEPT ![p] = IF i[p] + 1 = Len(cmd[p].args) THEN "buildPaths" ELSE "loop"]
          /\ UNCHANGED <<manifest, pathsToBuild, log, err, loaded, matchers, result>>
    /\ UNCHANGED <<profile, store, head, ops, cmd, before, origin>>

(* one iteration of the loop of CmdProfileInstall::run *)
InstallStep(p) ==
    /\ pc[p] = "loop"
    /\ cmd[p].name = "install"
    /\ LET installable == cmd[p].args[i[p] + 1] IN
       \/ /\ installable.kind = "flake"
          /\ manifest' = [manifest EXCEPT ![p] = Append(@, InstalledElement(installable))]
          /\ pathsToBuild' = [pathsToBuild EXCEPT ![p] =
                @ \cup {drvPathWithOutputs(ResolvedRef(installable.flakeRef),
                                           ResolveAttrPath(installable.attrPath))}]
          /\ Logged(p, "resolve", [pos |-> i[p], resolvedRef |-> ResolvedRef(installable.flakeRef)])
          /\ i' = [i EXCEPT ![p] = @ + 1]
          /\ pc' = [pc EXCEPT ![p] = IF i[p] + 1 = Len(cmd[p].args) THEN "buildPaths" ELSE "loop"]
          /\ UNCHANGED <<err, loaded, matchers, result>>
       \/ /\ installable.kind = "flake"
          /\ Throw(p, "ResolutionFailure")
          /\ UNCHANGED log
       \/ /\ installable.kind # "flake"
          /\ ThrowNaming(p, "UnsupportedInstallable", installable.what)
          /\ UNCHANGED log
    /\ UNCHANGED <<profile, store, head, ops, cmd, before, origin>>

\* a remove that returns without publishing when it removed nothing
RemoveLoadSkipping(p, selectors) ==
    /\ Load(p, "remove", selectors)
    /\ IF LoadFails
       THEN Throw(p, "UnsupportedVersion")
       ELSE IF getMatchersThrows(selectors)
       THEN Throw(p, "RegexError")
       ELSE /\ pc' = [pc EXCEPT ![p] =
                        IF RemoveLoop(LoadedElements, getMatchers(selectors), 1) = LoadedElements
                        THEN "done" ELSE "build"]
            /\ err' = [err EXCEPT ![p] = NoError]
            /\ loaded' = [loaded EXCEPT ![p] = LoadedElements]
            /\ matchers' = [matchers EXCEPT ![p] = getMatchers(selectors)]
            /\ manifest' = [manifest EXCEPT ![p] =
                                RemoveLoop(LoadedElements, getMatchers(selectors), 1)]
            /\ pathsToBuild' = [pathsToBuild EXCEPT ![p] = {}]
            /\ i' = [i EXCEPT ![p] = Len(LoadedElements)]
            /\ result' = [result EXCEPT ![p] = NoPath]

(* CmdProfileRemove::run, up to newManifest.build *)
RemoveLoad(p, selectors) ==
    /\ Load(p, "remove", selectors)
    /\ IF LoadFails
       THEN Throw(p, "UnsupportedVersion")
       ELSE IF getMatchersThrows(selectors)
       THEN Throw(p, "RegexError")
       ELSE /\ pc' = [pc EXCEPT ![p] = "build"]
            /\ err' = [err EXCEPT ![p] = NoError]
            /\ loaded' = [loaded EXCEPT ![p] = LoadedElements]
            /\ matchers' = [matchers EXCEPT ![p] = getMatchers(selectors)]
            /\ manifest' = [manifest EXCEPT ![p] =
                                RemoveLoop(LoadedElements, getMatchers(selectors), 1)]
            /\ pathsToBuild' = [pathsToBuild EXCEPT ![p] = {}]
            /\ i' = [i EXCEPT ![p] = Len(LoadedElements)]
            /\ result' = [result EXCEPT ![p] = NoPath]

(* CmdProfileUpgrade::run, up to its loop *)
UpgradeLoad(p, selectors) ==
    /\ Load(p, "upgrade", selectors)
    /\ IF LoadFails
       THEN Throw(p, "UnsupportedVersion")
       ELSE IF getMatchersThrows(selectors)
       THEN Throw(p, "RegexError")
       ELSE /\ pc' = [pc EXCEPT ![p] = IF Len(LoadedElements) = 0 THEN "buildPaths" ELSE "loop"]
            /\ err' = [err EXCEPT ![p] = NoError]
            /\ loaded' = [loaded EXCEPT ![p] = LoadedElements]
            /\ manifest' = [manifest EXCEPT ![p] = LoadedElements]
            /\ matchers' = [matchers EXCEPT ![p] = getMatchers(selectors)]
            /\ pathsToBuild' = [pathsToBuild EXCEPT ![p] = {}]
            /\ i' = [i EXCEPT ![p] = 0]
            /\ result' = [result EXCEPT ![p] = NoPath]

(* one iteration of the loop of CmdProfileUpgrade::run *)
UpgradeStep(p) ==
    /\ pc[p] = "loop"
    /\ cmd[p].name = "upgrade"
    /\ LET element == manifest[p][i[p] + 1]
           next == IF i[p] + 1 = Len(manifest[p]) THEN "buildPaths" ELSE "loop"
       IN
       \/ /\ ~UpgradeCandidate(element, i[p], matchers[p])
          /\ pc' = [pc EXCEPT ![p] = next]
          /\ i' = [i EXCEPT ![p] = @ + 1]
          /\ UNCHANGED <<manifest, pathsToBuild, log, err, loaded, matchers, result>>
       \/ /\ UpgradeCandidate(element, i[p], matchers[p])
          /\ Logged(p, "resolve", [pos |-> i[p],
                                   resolvedRef |-> ResolvedRef(SourceOf(element).originalRef)])
          /\ IF SourceOf(element).resolvedRef = ResolvedRef(SourceOf(element).originalRef)
             THEN UNCHANGED <<manifest, pathsToBuild>>
             ELSE /\ manifest' = [manifest EXCEPT ![p][i[p] + 1] = UpgradedElement(element)]
                  /\ pathsToBuild' = [pathsToBuild EXCEPT ![p] =
                        @ \cup {drvPathWithOutputs(
                                    ResolvedRef(SourceOf(element).originalRef),
                                    ResolveAttrPath(SourceOf(element).attrPath))}]
          /\ pc' = [pc EXCEPT ![p] = next]
          /\ i' = [i EXCEPT ![p] = @ + 1]
          /\ UNCHANGED <<err, loaded, matchers, result>>
       \/ /\ UpgradeCandidate(element, i[p], matchers[p])
          /\ Throw(p, "ResolutionFailure")
          /\ UNCHANGED log
    /\ UNCHANGED <<profile, store, head, ops, cmd, before, origin>>

\* a buildPaths whose failure is reported but does not end the command
BuildPathsLenient(p) ==
    /\ pc[p] = "buildPaths"
    /\ Logged(p, "buildPaths", pathsToBuild[p])
    /\ pc' = [pc EXCEPT ![p] = "build"]
    /\ \/ UNCHANGED err
       \/ /\ pathsToBuild[p] # {}
          /\ err' = [err EXCEPT ![p] = Error("BuildFailure", <<>>)]
    /\ UNCHANGED <<manifest, loaded, i, pathsToBuild, matchers, result>>
    /\ UNCHANGED <<profile, store, head, ops, cmd, before, origin>>

(* store->buildPaths(pathsToBuild) of install and upgrade *)
BuildPaths(p) ==
    /\ pc[p] = "buildPaths"
    /\ Logged(p, "buildPaths", pathsToBuild[p])
    /\ \/ /\ pc' = [pc EXCEPT ![p] = "build"]
          /\ UNCHANGED <<err, manifest, loaded, i, pathsToBuild, matchers, result>>
       \/ /\ pathsToBuild[p] # {}
          /\ Throw(p, "BuildFailure")
    /\ UNCHANGED <<profile, store, head, ops, cmd, before, origin>>

\* a build that switches the profile to the new tree as soon as it is registered
BuildSwitching(p) ==
    /\ pc[p] = "build"
    /\ store' = store \cup {BuildInfo(manifest[p])}
    /\ result' = [result EXCEPT ![p] = BuildInfo(manifest[p]).path]
    /\ profile' = BuildInfo(manifest[p]).path
    /\ log' = [log EXCEPT ![p] =
                    @ \o <<Event("buildProfile", Packages(manifest[p])),
                           Event("build", BuildInfo(manifest[p]).path)>>]
    /\ pc' = [pc EXCEPT ![p] = "publish"]
    /\ UNCHANGED <<err, manifest, loaded, i, pathsToBuild, matchers>>
    /\ UNCHANGED <<head, ops, cmd, before, origin>>

\* a build that writes the manifest.json of the elements as they were loaded
BuildStale(p) ==
    /\ pc[p] = "build"
    /\ LET nar == [links |-> TempDir(manifest[p]).links, manifest |-> toJSON(loaded[p])]
           info == [path       |-> makeFixedOutputPath(hashString(nar), "profile",
                                                       References(manifest[p])),
                    narHash    |-> hashString(nar),
                    references |-> References(manifest[p]),
                    nar        |-> nar]
       IN  /\ store' = store \cup {info}
           /\ result' = [result EXCEPT ![p] = info.path]
           /\ log' = [log EXCEPT ![p] =
                    @ \o <<Event("buildProfile", Packages(manifest[p])),
                           Event("build", info.path)>>]
    /\ pc' = [pc EXCEPT ![p] = "publish"]
    /\ UNCHANGED <<err, manifest, loaded, i, pathsToBuild, matchers>>
    /\ UNCHANGED <<profile, head, ops, cmd, before, origin>>

\* a build whose tree carries the name of its temporary directory
BuildStamped(p) ==
    /\ pc[p] = "build"
    /\ LET nar == [links |-> TempDir(manifest[p]).links,
                   manifest |-> TempDir(manifest[p]).manifest,
                   tempDir |-> ops]
           info == [path       |-> makeFixedOutputPath(hashString(nar), "profile",
                                                       References(manifest[p])),
                    narHash    |-> hashString(nar),
                    references |-> References(manifest[p]),
                    nar        |-> nar]
       IN  /\ store' = store \cup {info}
           /\ result' = [result EXCEPT ![p] = info.path]
           /\ log' = [log EXCEPT ![p] =
                    @ \o <<Event("buildProfile", Packages(manifest[p])),
                           Event("build", info.path)>>]
    /\ pc' = [pc EXCEPT ![p] = "publish"]
    /\ UNCHANGED <<err, manifest, loaded, i, pathsToBuild, matchers>>
    /\ UNCHANGED <<profile, head, ops, cmd, before, origin>>

(* manifest.build(store) *)
Build(p) ==
    /\ pc[p] = "build"
    /\ \/ /\ store' = store \cup {BuildInfo(manifest[p])}
          /\ result' = [result EXCEPT ![p] = BuildInfo(manifest[p]).path]
          /\ log' = [log EXCEPT ![p] =
                    @ \o <<Event("buildProfile", Packages(manifest[p])),
                           Event("build", BuildInfo(manifest[p]).path)>>]
          /\ pc' = [pc EXCEPT ![p] = "publish"]
          /\ UNCHANGED <<err, manifest, loaded, i, pathsToBuild, matchers>>
       \/ /\ Cardinality(buildProfile(Packages(manifest[p]))) >= 2
          /\ Throw(p, "MergeConflict")
          /\ UNCHANGED <<store, log>>
    /\ UNCHANGED <<profile, head, ops, cmd, before, origin>>

\* a publish that refuses to replace a generation other than the one it loaded
UpdateProfileChecked(p) ==
    /\ pc[p] = "publish"
    /\ IF profile = before[p]
       THEN /\ profile' = result[p]
            /\ Logged(p, "publish", result[p])
            /\ pc' = [pc EXCEPT ![p] = "done"]
            /\ UNCHANGED <<manifest, loaded, i, pathsToBuild, matchers, result, err>>
       ELSE /\ Throw(p, "Conflict")
            /\ UNCHANGED <<profile, log>>
    /\ UNCHANGED <<store, head, ops, cmd, before, origin>>

(* updateProfile(path): the generation switch *)
UpdateProfile(p) ==
    /\ pc[p] = "publish"
    /\ profile' = result[p]
    /\ Logged(p, "publish", result[p])
    /\ pc' = [pc EXCEPT ![p] = "done"]
    /\ UNCHANGED <<store, head, ops, cmd, manifest, loaded, i, pathsToBuild,
                   matchers, result, err, before, origin>>

(* the invocation is interrupted before it publishes *)
Cancel(p) ==
    /\ ~Finished(p)
    /\ Throw(p, "Interrupted")
    /\ UNCHANGED <<profile, store, head, ops, cmd, log, before, origin>>

(* upstream publishes a new revision of the flake *)
UpstreamAdvance ==
    /\ head < MaxRev
    /\ head' = head + 1
    /\ UNCHANGED <<profile, store, ops, pc, cmd, manifest, loaded, i, pathsToBuild,
                   matchers, result, err, log, before, origin>>

(* ---------------------------- specifications -------------------------- *)

\* one user running one command after another
Shell == {"p1"}

Next ==
    \/ \E p \in Shell : \E installables \in InstallableLists : InstallLoad(p, installables)
    \/ \E p \in Shell : InstallStep(p)
    \/ \E p \in Shell : \E selectors \in SelectorLists : RemoveLoad(p, selectors)
    \/ \E p \in Shell : \E selectors \in UpgradeLists : UpgradeLoad(p, selectors)
    \/ \E p \in Shell : UpgradeStep(p)
    \/ \E p \in Shell : BuildPaths(p)
    \/ \E p \in Shell : Build(p)
    \/ \E p \in Shell : UpdateProfile(p)
    \/ \E p \in Shell : Cancel(p)
    \/ UpstreamAdvance

Spec == Init /\ [][Next]_vars

\* two invocations on the same profile at the same time
RaceInstallableLists == {<<Floating>>, <<PinnedGit>>}

RaceRemoveLists == {<<<<"0">>>>}

RaceUpgradeLists == {<<<<".", "*">>>>}

RaceNext ==
    \/ \E p \in Procs : \E installables \in RaceInstallableLists :
            InstallLoad(p, installables)
    \/ \E p \in Procs : InstallStep(p)
    \/ \E p \in Procs : \E selectors \in RaceRemoveLists : RemoveLoad(p, selectors)
    \/ \E p \in Procs : \E selectors \in RaceUpgradeLists : UpgradeLoad(p, selectors)
    \/ \E p \in Procs : UpgradeStep(p)
    \/ \E p \in Procs : BuildPaths(p)
    \/ \E p \in Procs : Build(p)
    \/ \E p \in Procs : UpdateProfile(p)
    \/ \E p \in Procs : Cancel(p)
    \/ UpstreamAdvance

RaceSpec == Init /\ [][RaceNext]_vars

TypeOK == \A p \in Procs : pc[p] \in {"idle", "loop", "buildPaths", "build", "publish", "done", "failed"}

(* ---------------------------- properties ------------------------------ *)

\* the elements of the manifest of the profile's current generation
Published == LoadedElements

InFlight(p) == pc[p] \in {"loop", "buildPaths", "build", "publish"}

Events(p, ev) == SelectSeq(log[p], LAMBDA e : e.ev = ev)

\* the j-th smallest member of a set of indices
KthOf(K, j) == CHOOSE k \in K : Cardinality({x \in K : x < k}) = j - 1

\* the subsequence of seq at the indices K
SubseqAt(seq, K) == [j \in 1..Cardinality(K) |-> seq[KthOf(K, j)]]

\* the store holds under a path exactly the tree the path is the address of
AddressedContent(path) ==
    path # NoPath =>
        /\ \E info \in store : info.path = path
        /\ \A info \in store : info.path = path => hashString(info.nar) = path.narHash

(* C1: an install, remove or upgrade that has not reached the publish step,
   whether still running or ended by an error or an interrupt, has left the
   profile's current generation, and the manifest stored under it, exactly as
   they were when the operation started. *)
C1_UnpublishedLeavesProfile ==
    \A p \in Shell :
        (InFlight(p) \/ pc[p] = "failed") =>
            /\ profile = before[p]
            /\ AddressedContent(profile)
            /\ Events(p, "publish") = <<>>

\* an operation that registered its new tree in the store and then failed
C1_Witness ==
    \E p \in Shell :
        /\ pc[p] = "failed"
        /\ err[p].kind = "Interrupted"
        /\ Events(p, "build") # <<>>
        /\ before[p] # NoPath
        /\ log[p][Len(log[p])].arg # before[p]
        /\ profile = before[p]

(* C2: an install, remove or upgrade that completes without error has called
   updateProfile exactly once, as its last step and right after the manifest
   build, with the path that build returned; an operation that has not
   completed has not called it. This holds also when nothing changed. *)
C2_PublishOnceLast ==
    \A p \in Shell :
        /\ pc[p] = "done" =>
            /\ Len(Events(p, "publish")) = 1
            /\ Len(Events(p, "build")) = 1
            /\ Len(log[p]) >= 2
            /\ log[p][Len(log[p])] = Event("publish", result[p])
            /\ log[p][Len(log[p]) - 1] = Event("build", result[p])
            /\ result[p] = BuildInfo(manifest[p]).path
            /\ profile = result[p]
        /\ pc[p] # "done" => Events(p, "publish") = <<>>

\* a remove whose selectors matched nothing and an unchanged profile, published
C2_Witness ==
    \E p \in Shell :
        /\ pc[p] = "done"
        /\ cmd[p].name = "remove"
        /\ cmd[p].args # <<>>
        /\ loaded[p] # <<>>
        /\ manifest[p] = loaded[p]
        /\ profile = before[p]

(* C3: updateProfile makes no version check: an operation that has built its
   manifest can always publish it, whatever the profile's generation is by
   then, and the publish makes the publisher's own build the current
   generation. Every element of that build was either in the manifest the
   publisher loaded or resolved by the publisher itself, so that of two
   operations that loaded the same generation the later publish discards what
   the earlier one published. *)
C3_OwnElements(p) ==
    \A k \in 1..Len(manifest[p]) :
        \/ manifest[p][k] \in Range(loaded[p])
        \/ /\ HasSource(manifest[p][k])
           /\ \E n \in 1..Len(log[p]) :
                /\ log[p][n].ev = "resolve"
                /\ log[p][n].arg.resolvedRef = SourceOf(manifest[p][k]).resolvedRef

C3_LastPublishWins ==
    /\ [](\A p \in Procs :
            /\ pc[p] = "publish" => ENABLED (UpdateProfile(p) /\ pc'[p] = "done")
            /\ pc[p] \in {"publish", "done"} =>
                /\ C3_OwnElements(p)
                /\ result[p] = BuildInfo(manifest[p]).path)
    /\ [][\A p \in Procs :
            (pc[p] = "publish" /\ pc'[p] = "done") => profile' = result[p]]_vars

\* both loaded the same generation; the install published first and its
\* element is not in the generation the other operation published after it
C3_Witness ==
    \E p, q \in Procs :
        /\ p # q
        /\ pc[p] = "done" /\ pc[q] = "done"
        /\ before[p] = before[q]
        /\ cmd[p].name = "install"
        /\ cmd[q].name = "remove"
        /\ result[p] # result[q]
        /\ profile = result[q]
        /\ \E k \in 1..Len(manifest[p]) :
                /\ manifest[p][k] \notin Range(loaded[p])
                /\ manifest[p][k] \notin Range(Published)

\* a remove that has computed newManifest
Removed(p) == cmd[p].name = "remove" /\ pc[p] \in {"build", "publish", "done"}

\* the indices (from 1) of the elements of loaded[p] that no matcher of ms matches
KeptBy(p, ms) ==
    {k \in 1..Len(loaded[p]) : ~matches(loaded[p][k], k - 1, ms)}

(* C4: remove publishes exactly the subsequence of the loaded manifest made of
   the elements for which matches(element, i, matchers) is false, i being the
   element's index before removal: kept elements keep their order and their
   content. *)
C4_RemoveKeepsUnmatched ==
    \A p \in Shell :
        (cmd[p].name = "remove" /\ pc[p] = "done") =>
            LET K == KeptBy(p, matchers[p]) IN
            /\ Len(Published) = Cardinality(K)
            /\ Published = SubseqAt(loaded[p], K)
            /\ \A j \in 1..Len(Published) : Published[j] = loaded[p][KthOf(K, j)]

\* selector "1" removed the second of three elements and kept the first and third
C4_Witness ==
    \E p \in Shell :
        /\ cmd[p].name = "remove" /\ pc[p] = "done"
        /\ cmd[p].args = <<<<"1">>>>
        /\ Len(loaded[p]) = 3
        /\ loaded[p][2] # loaded[p][3]
        /\ Published = <<loaded[p][1], loaded[p][3]>>

(* C5: an element is selected if and only if at least one matcher of the list
   matches it, so that what a list selects is the union of what its matchers
   select one by one; the empty list selects nothing; a selector never makes
   remove fail, and one that matches no element changes nothing. *)
C5_AnyMatcherSelects ==
    \A p \in Shell :
        /\ Removed(p) =>
            LET K == {k \in 1..Len(loaded[p]) :
                        \A j \in 1..Len(matchers[p]) :
                            ~matches(loaded[p][k], k - 1, <<matchers[p][j]>>)}
            IN  /\ manifest[p] = SubseqAt(loaded[p], K)
                /\ cmd[p].args = <<>> => manifest[p] = loaded[p]
                /\ \A j \in 1..Len(matchers[p]) :
                        KeptBy(p, <<matchers[p][j]>>) = 1..Len(loaded[p]) =>
                            manifest[p] =
                                SubseqAt(loaded[p],
                                    KeptBy(p, SubSeq(matchers[p], 1, j - 1)
                                              \o SubSeq(matchers[p], j + 1, Len(matchers[p]))))
        /\ (cmd[p].name = "remove" /\ pc[p] = "failed") =>
                /\ err[p].kind \in {"UnsupportedVersion", "RegexError", "MergeConflict", "Interrupted"}
                /\ err[p].kind = "RegexError" =>
                        \E j \in 1..Len(cmd[p].args) : RegexError(cmd[p].args[j])

\* a pattern and a position, each of which alone selects one of two elements,
\* have together selected both
C5_Witness ==
    \E p \in Shell :
        /\ Removed(p)
        /\ Len(matchers[p]) = 2
        /\ matchers[p][1].kind # matchers[p][2].kind
        /\ Len(loaded[p]) = 2
        /\ Cardinality(KeptBy(p, <<matchers[p][1]>>)) = 1
        /\ Cardinality(KeptBy(p, <<matchers[p][2]>>)) = 1
        /\ manifest[p] = <<>>

\* a remove or upgrade that has called getMatchers
Matched(p) == cmd[p].name \in {"remove", "upgrade"} /\ pc[p] \notin {"idle", "failed"}

(* C6: every selector becomes one matcher: a positional one holding its value
   if it parses as a non-negative integer, otherwise a path matcher holding it
   if the store takes it for a store path, otherwise a pattern. An integer
   selector selects by position alone and a store path selector by membership
   in storePaths alone. *)
C6_ClassificationPriority ==
    \A p \in Shell :
        Matched(p) =>
            /\ Len(matchers[p]) = Len(cmd[p].args)
            /\ \A j \in 1..Len(cmd[p].args) :
                LET s == cmd[p].args[j]
                    m == matchers[p][j]
                IN  /\ string2IntOk(s) => (m.kind = "size_t" /\ m.val = string2Int(s))
                    /\ (~string2IntOk(s) /\ isStorePath(s)) => (m.kind = "Path" /\ m.val = s)
                    /\ (~string2IntOk(s) /\ ~isStorePath(s)) => m.kind = "regex"
                    /\ \A k \in 1..Len(loaded[p]) :
                        /\ string2IntOk(s) =>
                            (matches(loaded[p][k], k - 1, <<m>>) <=> string2Int(s) = k - 1)
                        /\ (~string2IntOk(s) /\ isStorePath(s)) =>
                            (matches(loaded[p][k], k - 1, <<m>>) <=> s \in loaded[p][k].storePaths)

\* a store path selector took out the element that holds the path
C6_Witness ==
    \E p \in Shell :
        /\ Removed(p)
        /\ \E j \in 1..Len(cmd[p].args) :
            /\ isStorePath(cmd[p].args[j])
            /\ matchers[p][j].kind = "Path"
            /\ \E k \in 1..Len(loaded[p]) : cmd[p].args[j] \in loaded[p][k].storePaths
        /\ Len(manifest[p]) < Len(loaded[p])

(* C7: a pattern selects an element only if the element has provenance and the
   pattern matches its whole attrPath: with patterns alone no element without
   provenance is removed, nor one whose attrPath the pattern matches only in
   part, and ".*" removes exactly the elements that have provenance. *)
C7_PatternNeedsProvenance ==
    \A p \in Shell :
        Removed(p) =>
            /\ (\A j \in 1..Len(matchers[p]) : matchers[p][j].kind = "regex") =>
                    \A k \in 1..Len(loaded[p]) :
                        ~HasSource(loaded[p][k]) => k \in KeptBy(p, matchers[p])
            /\ cmd[p].args = <<<<".", "*">>>> =>
                    manifest[p] = SelectSeq(loaded[p], LAMBDA e : ~HasSource(e))
            /\ cmd[p].args = <<<<"hello">>>> =>
                    manifest[p] = SelectSeq(loaded[p],
                                    LAMBDA e : ~HasSource(e) \/ SourceOf(e).attrPath # <<"hello">>)

\* ".*" removed the element with provenance and kept the one without
C7_Witness ==
    \E p \in Shell :
        /\ Removed(p)
        /\ cmd[p].args = <<<<".", "*">>>>
        /\ Len(loaded[p]) = 2
        /\ Len(manifest[p]) = 1
        /\ ~HasSource(manifest[p][1])

\* an upgrade that has published
Upgraded(p) == cmd[p].name = "upgrade" /\ pc[p] = "done"

\* the references the resolver returned for the element at index k (from 1)
ResolvedAt(p, k) ==
    {e.arg.resolvedRef : e \in {x \in Range(Events(p, "resolve")) : x.arg.pos = k - 1}}

\* the set handed to store->buildPaths
BuildRequest(p) == Events(p, "buildPaths")[1].arg

(* C8: upgrade changes an element only if the element has provenance, its
   originalRef is not immutable, the matchers select it at its position, and
   the resolver returned a reference other than the recorded resolvedRef. An
   element re-resolved to its recorded resolvedRef is published as it was
   loaded, and every build request belongs to an element that changed. *)
C8_UpgradeOnlyStale ==
    \A p \in Shell :
        Upgraded(p) =>
            /\ Len(Published) = Len(loaded[p])
            /\ \A k \in 1..Len(loaded[p]) :
                LET old == loaded[p][k]
                    new == Published[k]
                IN  /\ new # old =>
                        /\ HasSource(old)
                        /\ ~isImmutable(SourceOf(old).originalRef)
                        /\ matches(old, k - 1, getMatchers(cmd[p].args))
                        /\ ResolvedAt(p, k) # {}
                        /\ SourceOf(old).resolvedRef \notin ResolvedAt(p, k)
                    /\ (HasSource(old) /\ SourceOf(old).resolvedRef \in ResolvedAt(p, k)) =>
                        new = old
            /\ \A r \in BuildRequest(p) :
                \E k \in 1..Len(loaded[p]) :
                    /\ Published[k] # loaded[p][k]
                    /\ r = drvPathWithOutputs(SourceOf(Published[k]).resolvedRef,
                                              SourceOf(Published[k]).attrPath)

\* one element was upgraded; another, selected and re-resolved to the reference
\* it already had, was not; one build was requested
C8_Witness ==
    \E p \in Shell :
        /\ Upgraded(p)
        /\ \E k \in 1..Len(loaded[p]) : Published[k] # loaded[p][k]
        /\ \E k \in 1..Len(loaded[p]) :
                /\ HasSource(loaded[p][k])
                /\ SourceOf(loaded[p][k]).resolvedRef \in ResolvedAt(p, k)
                /\ Published[k] = loaded[p][k]
        /\ \E k \in 1..Len(loaded[p]) : ~HasSource(loaded[p][k])
        /\ Cardinality(BuildRequest(p)) = 1

(* C9: upgrade replaces in place: the published manifest is as long as the
   loaded one; every element keeps its index, its active flag and whether it
   has provenance; an upgraded element keeps its originalRef and gets the
   reference and attrPath the resolver returned and the one output path of
   that derivation. *)
C9_UpgradeInPlace ==
    \A p \in Shell :
        Upgraded(p) =>
            /\ Len(Published) = Len(loaded[p])
            /\ \A k \in 1..Len(loaded[p]) :
                LET old == loaded[p][k]
                    new == Published[k]
                IN  /\ new.active = old.active
                    /\ HasSource(new) = HasSource(old)
                    /\ new # old =>
                        /\ SourceOf(new).originalRef = SourceOf(old).originalRef
                        /\ SourceOf(new).resolvedRef \in ResolvedAt(p, k)
                        /\ SourceOf(new).resolvedRef # SourceOf(old).resolvedRef
                        /\ SourceOf(new).attrPath = ResolveAttrPath(SourceOf(old).attrPath)
                        /\ new.storePaths =
                            {outPath(SourceOf(new).resolvedRef, SourceOf(new).attrPath)}
                        /\ new.storePaths # old.storePaths

\* an inactive element in second place was upgraded where it stood
C9_Witness ==
    \E p \in Shell :
        /\ Upgraded(p)
        /\ Len(loaded[p]) >= 2
        /\ Published[2] # loaded[p][2]
        /\ ~loaded[p][2].active
        /\ Published[1] = loaded[p][1]

(* C10: a successful install of k references publishes the loaded manifest
   followed by k new elements in argument order; the j-th is active and holds
   the reference as requested, the reference and attrPath the resolver
   returned for it, and the one output path of that derivation. Elements
   already present keep index and content, also when a new one equals them. *)
C10_InstallAppends ==
    \A p \in Shell :
        (cmd[p].name = "install" /\ pc[p] = "done") =>
            LET n == Len(loaded[p])
                k == Len(cmd[p].args)
            IN  /\ Len(Published) = n + k
                /\ SubSeq(Published, 1, n) = loaded[p]
                /\ Len(Events(p, "resolve")) = k
                /\ \A j \in 1..k :
                    LET new == Published[n + j]
                        installable == cmd[p].args[j]
                        resolved == Events(p, "resolve")[j].arg
                    IN  /\ new.active
                        /\ HasSource(new)
                        /\ SourceOf(new).originalRef = installable.flakeRef
                        /\ resolved.pos = j - 1
                        /\ SourceOf(new).resolvedRef = resolved.resolvedRef
                        /\ SourceOf(new).attrPath = ResolveAttrPath(installable.attrPath)
                        /\ new.storePaths =
                            {outPath(resolved.resolvedRef, SourceOf(new).attrPath)}

\* two references installed onto one element, the second new element equal to it
C10_Witness ==
    \E p \in Shell :
        /\ cmd[p].name = "install" /\ pc[p] = "done"
        /\ Len(cmd[p].args) = 2
        /\ Len(loaded[p]) = 1
        /\ Published[3] = loaded[p][1]
        /\ Published[2] # Published[3]

\* the first argument of an install that is no InstallableFlake, or 0
FirstUnsupported(p) ==
    LET bad == {j \in 1..Len(cmd[p].args) : cmd[p].args[j].kind # "flake"}
    IN  IF bad = {} THEN 0 ELSE CHOOSE j \in bad : \A k \in bad : j <= k

(* C11: an install with an argument that is no InstallableFlake never reaches
   store->buildPaths, build or updateProfile: it ends with an error whose
   message names that argument, after resolving the arguments before it and
   no other. An install fails with that error only for such an argument. *)
C11_UnsupportedInstallableAborts ==
    \A p \in Shell :
        (cmd[p].name = "install" /\ pc[p] # "idle") =>
            /\ FirstUnsupported(p) # 0 =>
                /\ pc[p] \in {"loop", "failed"}
                /\ Events(p, "buildPaths") = <<>>
                /\ Events(p, "build") = <<>>
                /\ Events(p, "publish") = <<>>
                /\ Len(Events(p, "resolve")) < FirstUnsupported(p)
                /\ profile = before[p]
            /\ (pc[p] = "failed" /\ err[p].kind = "UnsupportedInstallable") =>
                /\ FirstUnsupported(p) = Len(Events(p, "resolve")) + 1
                /\ err[p].what = cmd[p].args[FirstUnsupported(p)].what
            /\ (pc[p] = "failed" /\ FirstUnsupported(p) # 0
                /\ Len(Events(p, "resolve")) = FirstUnsupported(p) - 1
                /\ err[p].kind \notin {"Interrupted", "ResolutionFailure", "UnsupportedVersion"}) =>
                    err[p].kind = "UnsupportedInstallable"

\* the first argument was resolved, the second rejected and named
C11_Witness ==
    \E p \in Shell :
        /\ cmd[p].name = "install"
        /\ pc[p] = "failed"
        /\ err[p] = Error("UnsupportedInstallable", <<StoreDir, "cowsay", "0">>)
        /\ Len(Events(p, "resolve")) = 1
        /\ Events(p, "buildPaths") = <<>>
        /\ profile = before[p]

\* the elements the invocation loaded when it started
LoadedBy(p) ==
    IF before[p] = NoPath THEN <<>> ELSE ElementsFromJSON(InfoOf(before[p]).nar.manifest)

\* the positions of an event in the invocation's log
PositionsOf(p, ev) == {k \in 1..Len(log[p]) : log[p][k].ev = ev}

\* the derivations the resolutions of the invocation asked to have built
Requested(p) ==
    IF cmd[p].name = "install"
    THEN {drvPathWithOutputs(e.arg.resolvedRef,
                             ResolveAttrPath(cmd[p].args[e.arg.pos + 1].attrPath)) :
            e \in Range(Events(p, "resolve"))}
    ELSE {drvPathWithOutputs(e.arg.resolvedRef,
                             ResolveAttrPath(SourceOf(LoadedBy(p)[e.arg.pos + 1]).attrPath)) :
            e \in {x \in Range(Events(p, "resolve")) :
                    x.arg.resolvedRef # SourceOf(LoadedBy(p)[x.arg.pos + 1]).resolvedRef}}

(* C12: install and upgrade hand the store at most one buildPaths request per
   invocation, and exactly one before the manifest is built. Every resolution
   precedes it, the build of the manifest and the publish follow it, it holds
   exactly the derivations the resolutions asked for, and when it fails the
   invocation ends without building the manifest and without publishing. *)
C12_OneBuildRequest ==
    \A p \in Shell :
        (cmd[p].name \in {"install", "upgrade"} /\ pc[p] # "idle") =>
            /\ Cardinality(PositionsOf(p, "buildPaths")) <= 1
            /\ pc[p] \in {"build", "publish", "done"} =>
                    Cardinality(PositionsOf(p, "buildPaths")) = 1
            /\ (PositionsOf(p, "build") \cup PositionsOf(p, "publish")) # {} =>
                    PositionsOf(p, "buildPaths") # {}
            /\ \A k \in PositionsOf(p, "buildPaths") :
                /\ \A j \in PositionsOf(p, "resolve") : j < k
                /\ \A j \in PositionsOf(p, "build") \cup PositionsOf(p, "publish") : k < j
                /\ log[p][k].arg = Requested(p)
            /\ err[p].kind = "BuildFailure" =>
                /\ pc[p] = "failed"
                /\ Cardinality(PositionsOf(p, "buildPaths")) = 1
                /\ PositionsOf(p, "build") = {}
                /\ PositionsOf(p, "publish") = {}
                /\ profile = before[p]

\* an install of two packages whose single request for both failed
C12_Witness ==
    \E p \in Shell :
        /\ cmd[p].name = "install"
        /\ pc[p] = "failed"
        /\ err[p].kind = "BuildFailure"
        /\ Len(Events(p, "resolve")) = 2
        /\ Cardinality(PositionsOf(p, "buildPaths")) = 1
        /\ Cardinality(BuildRequest(p)) = 2
        /\ profile = before[p]

\* the manifest.json the invocation found when it started, if there was one
FoundManifest(p) == InfoOf(before[p]).nar.manifest

(* C13: an operation that finds a manifest.json whose version is not 1, a
   missing version included, ends with the unsupported-version error before
   it has resolved, requested a build, built or published anything, and
   leaves the profile as it was; no operation ends with that error otherwise.
   An operation that finds no manifest.json starts from the empty element
   list and does not end with that error. *)
C13_VersionGate ==
    \A p \in Shell :
        pc[p] # "idle" =>
            /\ (before[p] # NoPath /\ JsonValue(FoundManifest(p), "version", 0) # 1) =>
                /\ pc[p] = "failed"
                /\ err[p].kind = "UnsupportedVersion"
                /\ log[p] = <<>>
                /\ profile = before[p]
            /\ err[p].kind = "UnsupportedVersion" =>
                /\ before[p] # NoPath
                /\ JsonValue(FoundManifest(p), "version", 0) # 1
            /\ before[p] = NoPath =>
                /\ err[p].kind # "UnsupportedVersion"
                /\ (InFlight(p) \/ pc[p] = "done") => loaded[p] = <<>>

\* an operation on a profile whose manifest has elements but no version
C13_Witness ==
    \E p \in Shell :
        /\ pc[p] = "failed"
        /\ err[p].kind = "UnsupportedVersion"
        /\ before[p] # NoPath
        /\ "version" \notin DOMAIN FoundManifest(p)
        /\ Len(FoundManifest(p).elements) > 0
        /\ log[p] = <<>>
        /\ profile = before[p]

\* what the constructor reads from a manifest.json holding toJSON of the elements
RoundTrip(elements) == ElementsFromJSON(toJSON(elements))

(* C14: every element list an install, remove or upgrade holds, builds or has
   published is read back unchanged from its own serialisation, which carries
   version 1: the same elements in the same order, each with the same
   storePaths, active flag and source. What a finished operation published is
   loaded as the list it built. *)
C14_RoundTrip ==
    \A p \in Shell :
        /\ ManifestVersionOk(toJSON(manifest[p]))
        /\ RoundTrip(manifest[p]) = manifest[p]
        /\ RoundTrip(loaded[p]) = loaded[p]
        /\ pc[p] = "done" => Published = manifest[p]

\* a published list of a two-path element without source, an inactive
\* element, and an element whose original and resolved references differ
C14_Witness ==
    \E p \in Shell :
        /\ pc[p] = "done"
        /\ Published = manifest[p]
        /\ \E k \in 1..Len(manifest[p]) :
            ~HasSource(manifest[p][k]) /\ Cardinality(manifest[p][k].storePaths) = 2
        /\ \E k \in 1..Len(manifest[p]) : ~manifest[p][k].active
        /\ \E k \in 1..Len(manifest[p]) :
            /\ HasSource(manifest[p][k])
            /\ SourceOf(manifest[p][k]).originalRef # SourceOf(manifest[p][k]).resolvedRef
            /\ manifest[p][k].active

\* the invocation has built its manifest into an artifact
Built(p) == pc[p] \in {"publish", "done"}

\* the store paths of the elements with the given active flag
PathsOfActive(elements, active) ==
    UNION {elements[k].storePaths : k \in {j \in 1..Len(elements) : elements[j].active = active}}

PathsOfAll(elements) == UNION {elements[k].storePaths : k \in 1..Len(elements)}

(* C15: when an operation has built its manifest, the packages it handed to
   buildProfile are exactly the store paths of the active elements, each
   active with priority 5; the links of the artifact are those paths; the
   artifact's references are the store paths of all elements, active or not;
   and the manifest inside the artifact lists every element, the inactive
   ones with their store paths and active = false. *)
C15_ActiveInEnvironmentAllInReferences ==
    \A p \in Shell :
        Built(p) =>
            LET pkgs == Events(p, "buildProfile")[1].arg
                info == InfoOf(result[p])
            IN  /\ Len(Events(p, "buildProfile")) = 1
                /\ {pkgs[k].path : k \in 1..Len(pkgs)} = PathsOfActive(manifest[p], TRUE)
                /\ \A k \in 1..Len(pkgs) : pkgs[k].active /\ pkgs[k].priority = 5
                /\ info.nar.links = PathsOfActive(manifest[p], TRUE)
                /\ info.references = PathsOfAll(manifest[p])
                /\ result[p].references = PathsOfAll(manifest[p])
                /\ Len(info.nar.manifest.elements) = Len(manifest[p])
                /\ \A k \in 1..Len(manifest[p]) :
                    /\ info.nar.manifest.elements[k].active = manifest[p][k].active
                    /\ Range(info.nar.manifest.elements[k].storePaths) = manifest[p][k].storePaths

\* an artifact with an inactive element whose path is referenced, listed in
\* the manifest and not linked, beside an active element that is linked
C15_Witness ==
    \E p \in Shell :
        /\ Built(p)
        /\ \E k \in 1..Len(manifest[p]) :
            /\ ~manifest[p][k].active
            /\ manifest[p][k].storePaths # {}
            /\ manifest[p][k].storePaths \cap InfoOf(result[p]).nar.links = {}
            /\ manifest[p][k].storePaths \subseteq InfoOf(result[p]).references
            /\ ~InfoOf(result[p]).nar.manifest.elements[k].active
        /\ \E k \in 1..Len(manifest[p]) :
            /\ manifest[p][k].active
            /\ manifest[p][k].storePaths # {}
            /\ manifest[p][k].storePaths \subseteq InfoOf(result[p]).nar.links

\* the artifacts in the store whose manifest.json the constructor accepts
Artifacts == {info \in store : ManifestVersionOk(info.nar.manifest)}

\* the element lists agree position by position on storePaths and active
AgreeOnPathsAndActive(m1, m2) ==
    /\ Len(m1) = Len(m2)
    /\ \A k \in 1..Len(m1) :
        /\ m1[k].storePaths = m2[k].storePaths
        /\ m1[k].active = m2[k].active

(* C16 as stated: any two artifacts built from element lists that agree
   position by position on storePaths and active are the same artifact, with
   the same content hash and the same path. *)
C16_SourceBlindBuild ==
    \A a, b \in Artifacts :
        AgreeOnPathsAndActive(ElementsFromJSON(a.nar.manifest),
                              ElementsFromJSON(b.nar.manifest)) =>
            /\ a.narHash = b.narHash
            /\ a.path = b.path

(* C16 amended: the artifact an operation has built is BuildInfo of its
   element list. Against every artifact in the store, it has the same links
   and references when the two element lists agree on storePaths and active,
   and the same content hash and path when the two element lists are equal,
   source included: the serialisation of the list is part of the tree.
   Building a list equal to the one loaded yields the generation it was
   loaded from. *)
C16_BuildDeterministic ==
    \A p \in Shell :
        Built(p) =>
            /\ result[p] = BuildInfo(manifest[p]).path
            /\ InfoOf(result[p]) = BuildInfo(manifest[p])
            /\ (before[p] # NoPath /\ manifest[p] = LoadedBy(p)) => result[p] = before[p]
            /\ \A b \in Artifacts :
                /\ AgreeOnPathsAndActive(manifest[p], ElementsFromJSON(b.nar.manifest)) =>
                        /\ InfoOf(result[p]).nar.links = b.nar.links
                        /\ InfoOf(result[p]).references = b.references
                /\ manifest[p] = ElementsFromJSON(b.nar.manifest) =>
                        /\ b.narHash = result[p].narHash
                        /\ b.path = result[p]

\* two artifacts with the same links and references whose elements differ
\* only in their source, under different paths
C16_Witness ==
    \E a, b \in Artifacts :
        /\ ElementsFromJSON(a.nar.manifest) # <<>>
        /\ AgreeOnPathsAndActive(ElementsFromJSON(a.nar.manifest),
                                 ElementsFromJSON(b.nar.manifest))
        /\ a.nar.links = b.nar.links
        /\ a.references = b.references
        /\ ElementsFromJSON(a.nar.manifest) # ElementsFromJSON(b.nar.manifest)
        /\ a.narHash # b.narHash
        /\ a.path # b.path

\* the elements the constructor reads from a generation
ElementsAt(path) ==
    IF path = NoPath THEN <<>> ELSE ElementsFromJSON(InfoOf(path).nar.manifest)

\* the command-line numeral of a position
Numeral(n) == <<Digits[n + 1]>>

\* this step starts the given command right after the invocation's previous
\* command has published
StartsAfterPublished(p, name) ==
    /\ pc[p] = "done"
    /\ profile = result[p]
    /\ ops' = ops + 1
    /\ cmd'[p].name = name

\* this step is the publish of the invocation
Publishes(p) == pc[p] = "publish" /\ pc'[p] = "done"

(* C17: an install of one package on a profile of n elements publishes those
   elements and one more at position n; a remove of the positional selector n
   started on that result builds, and then publishes, the elements the
   profile had before the install, in their order. When the profile had no
   manifest, what the remove builds has no links, no references, and a
   manifest.json with an empty element list. *)
C17_InstallRemoveInverse ==
    [][\A p \in Shell :
        /\ (/\ StartsAfterPublished(p, "remove")
            /\ cmd[p].name = "install"
            /\ Len(cmd[p].args) = 1
            /\ cmd'[p].args = <<Numeral(Len(loaded[p]))>>) =>
                /\ Len(ElementsAt(profile)) = Len(loaded[p]) + 1
                /\ SubSeq(ElementsAt(profile), 1, Len(loaded[p])) = loaded[p]
                /\ pc'[p] = "build"
                /\ manifest'[p] = loaded[p]
                /\ before[p] = NoPath =>
                    /\ BuildInfo(manifest'[p]).nar = [links |-> {}, manifest |-> toJSON(<<>>)]
                    /\ BuildInfo(manifest'[p]).references = {}
                    /\ BuildInfo(manifest'[p]).path.references = {}
        /\ (Publishes(p) /\ cmd[p].name = "remove") =>
                /\ profile' = BuildInfo(manifest[p]).path
                /\ ElementsAt(profile') = manifest[p]
    ]_vars

\* a profile of two elements that got a third by an install and lost it again
\* by remove 2
C17_Witness ==
    \E p \in Shell :
        /\ cmd[p] = [name |-> "remove", args |-> <<<<"2">>>>]
        /\ pc[p] = "done"
        /\ Len(LoadedBy(p)) = 3
        /\ HasSource(LoadedBy(p)[3]) /\ LoadedBy(p)[3].active
        /\ Published = SubSeq(LoadedBy(p), 1, 2)
        /\ Published = LegacyElements

\* the artifact is whole: its path is the address of its tree, and its links
\* and references are those of the elements its manifest.json serialises
Coherent(info) ==
    LET elements == ElementsFromJSON(info.nar.manifest) IN
    /\ info.path = makeFixedOutputPath(info.narHash, "profile", info.references)
    /\ info.narHash = hashString(info.nar)
    /\ info.nar.manifest = toJSON(elements)
    /\ info.nar.links = PathsOfActive(elements, TRUE)
    /\ info.references = PathsOfAll(elements)

(* C18: whatever the interleaving of two invocations, the profile's current
   generation is a path registered in the store, one artifact under it, and
   unless it is a generation of another manifest version its tree hashes to
   its path and its manifest.json serialises the elements its links and
   references were computed from. Every switch of the profile is to a path
   that was registered in the store before the step of the switch. *)
C18_PublishedIsRegisteredAndCoherent ==
    /\ [](profile # NoPath =>
            /\ Cardinality({info \in store : info.path = profile}) = 1
            /\ ManifestVersionOk(InfoOf(profile).nar.manifest) => Coherent(InfoOf(profile)))
    /\ [][profile' # profile =>
            /\ \E info \in store : info.path = profile' /\ Coherent(info)
            /\ \E p \in Procs : pc[p] = "publish" /\ result[p] = profile' /\ pc'[p] = "done"]_vars

\* one invocation has published while the other's artifact is registered and
\* not yet current
C18_Witness ==
    \E p, q \in Procs :
        /\ p # q
        /\ pc[p] = "done"
        /\ profile = result[p]
        /\ profile # before[p]
        /\ \E k \in 1..Len(ElementsAt(profile)) : ~ElementsAt(profile)[k].active
        /\ pc[q] = "publish"
        /\ result[q] # profile
        /\ \E info \in store : info.path = result[q]

\* this step starts the remove that has just published once more, with the
\* same selectors
RemovesAgain(p) ==
    /\ StartsAfterPublished(p, "remove")
    /\ cmd[p].name = "remove"
    /\ cmd'[p].args = cmd[p].args
    /\ ~getMatchersThrows(cmd[p].args)

\* the matchers of the selectors that are positions
Positional(selectors) ==
    {m \in Range(getMatchers(selectors)) : m.kind = "size_t"}

(* C19: a remove started with the selectors of the remove that has just
   published, none of them a position, removes nothing: it goes on to build
   the elements it loaded, which are those the first run built, into the
   generation that is already current, and does not return early. When one
   of the selectors is a position that the result of the first run still
   has, the second run builds a different element list. *)
C19_RemoveIdempotentUnlessPositional ==
    [][\A p \in Shell :
        RemovesAgain(p) =>
            /\ Positional(cmd[p].args) = {} =>
                /\ ElementsAt(profile) = manifest[p]
                /\ manifest'[p] = manifest[p]
                /\ pc'[p] = "build"
                /\ BuildInfo(manifest'[p]).path = profile
            /\ (\E m \in Positional(cmd[p].args) : m.val < Len(ElementsAt(profile))) =>
                /\ manifest'[p] # ElementsAt(profile)
                /\ Len(manifest'[p]) < Len(ElementsAt(profile))
    ]_vars

\* the second remove of a store path on a profile that a remove had stripped
\* of the element with that path: the generation it loaded is published again
C19_Witness ==
    \E p \in Shell :
        /\ cmd[p] = [name |-> "remove", args |-> <<<<StoreDir, "hello", "1">>>>]
        /\ pc[p] = "done"
        /\ ops = 2
        /\ BuildInfo(LegacyElements) \in store
        /\ before[p] # NoPath
        /\ before[p] # BuildInfo(LegacyElements).path
        /\ LoadedBy(p) = <<LegacyElements[1]>>
        /\ Published = LoadedBy(p)
        /\ profile = before[p]

\* an element as install and upgrade make them
WellFormed(element) ==
    /\ element.active
    /\ HasSource(element)
    /\ Cardinality(element.storePaths) = 1

\* the invocation holds an element list of its own
HoldsManifest(p) == InFlight(p) \/ pc[p] = "done"

(* C20: while the profile started without a manifest, every element of the
   published manifest is active, has a source and has exactly one store
   path. Whatever the profile started from, every element an install,
   remove or upgrade holds is an element it loaded, or an element install
   added that is active with a source and one store path, or what upgrade
   made of the loaded element at the same position, with a source, one store
   path and the active flag it was loaded with; and an operation in progress
   holds its own copy of the elements it loaded unchanged. *)
C20_ElementsStayWellFormed ==
    /\ origin = NoPath => \A k \in 1..Len(Published) : WellFormed(Published[k])
    /\ \A p \in Shell :
        HoldsManifest(p) =>
            /\ loaded[p] = LoadedBy(p)
            /\ cmd[p].name = "install" =>
                /\ Len(manifest[p]) >= Len(loaded[p])
                /\ SubSeq(manifest[p], 1, Len(loaded[p])) = loaded[p]
                /\ \A k \in (Len(loaded[p]) + 1)..Len(manifest[p]) : WellFormed(manifest[p][k])
            /\ cmd[p].name = "remove" =>
                \A k \in 1..Len(manifest[p]) : manifest[p][k] \in Range(loaded[p])
            /\ cmd[p].name = "upgrade" =>
                /\ Len(manifest[p]) = Len(loaded[p])
                /\ \A k \in 1..Len(manifest[p]) :
                    \/ manifest[p][k] = loaded[p][k]
                    \/ /\ manifest[p][k].active = loaded[p][k].active
                       /\ HasSource(loaded[p][k])
                       /\ HasSource(manifest[p][k])
                       /\ Cardinality(manifest[p][k].storePaths) = 1

\* a profile that started without a manifest, got two packages by an install
\* and had one of them replaced by an upgrade
C20_Witness ==
    \E p \in Shell :
        /\ origin = NoPath
        /\ cmd[p].name = "upgrade"
        /\ pc[p] = "done"
        /\ Len(Published) = 2
        /\ Published = manifest[p]
        /\ Published # loaded[p]
        /\ \A k \in 1..Len(Published) : WellFormed(Published[k])

====
